---- MODULE Spec2Model ----
(***************************************************************************)
(* Lesson personalization pipeline of nevo-backend.                        *)
(*                                                                         *)
(* The store (db) is the COMMITTED content of the database: what any       *)
(* session reads.  Each play request runs in its own session; what it      *)
(* flushes stays in its transaction (tx) until UnitOfWork.commit.          *)
(***************************************************************************)
EXTENDS Integers, Sequences, FiniteSets, TLC

VARIABLES db, pc, call, hist, tally, plays, envSteps, raw, validated,
          response, inner, parsed, reply, learner, adapt_result,
          interactions, collected, training_logs, clock, run, batches, marked,
          sess, assessments, profiles, submitted

\* the play requests and the store
playVars == <<db, pc, call, hist, tally, plays, envSteps>>

\* the block validator on its own
validateVars == <<raw, validated>>

\* the response parsers on their own
extractVars == <<response, inner, parsed>>

\* the adapt calls on their own
gatewayVars == <<reply, learner, adapt_result>>

\* the training data: the collect function on its own, the log table, the
\* pipeline run and the sessions that edit a log
collectVars == <<interactions, collected>>
pipelineVars == <<clock, run, batches, marked>>
trainVars == <<collectVars, training_logs, pipelineVars, sess>>

\* the assessment submissions and the learner profiles they write
assessVars == <<assessments, profiles, submitted>>

vars == <<playVars, validateVars, extractVars, gatewayVars, trainVars, assessVars>>

----------------------------------------------------------------------------
(* Bounds *)

MaxPlays == 3
MaxEnvSteps == 2
MaxLen == 3

\* two requests are enough for every overlap of two play calls
Procs == {"a", "b"}

----------------------------------------------------------------------------
(* Identities and small value universes *)

Students == {"s1", "s2"}
Teachers == {"t1"}
Users == Students \cup Teachers
Lessons == {"L1"}
LessonIds == Lessons \cup {"L0"}
UserIds == Users \cup {"u0"}
Titles == {"Plants", "Plants v2"}
Texts == {"Photosynthesis", "Photosynthesis v2"}
LearningStyles == {"visual", "auditory"}

None == <<>>
Some(x) == <<x>>

\* AdaptedLessonStatus
PENDING == "pending"
GENERATING == "generating"
READY == "ready"
FAILED == "failed"
AdaptedLessonStatus == {PENDING, GENERATING, READY, FAILED}

\* User.is_student
is_student(u) == u \in Students

----------------------------------------------------------------------------
(* What the model can answer: the text of a response is represented by    *)
(* what _parse_json_response makes of it.                                  *)

HeadingBlock == [type |-> "heading", content |-> "Plants"]
TextBlock == [id |-> "b7", type |-> "text", content |-> "Leaves make food",
              order |-> 7]
QuizBlock == [type |-> "quiz", question |-> "What do leaves make?",
              options |-> <<"food", "rocks">>, correct_index |-> 0]
PlainBlock == [content |-> "Plants need light"]
MysteryBlock == [type |-> "mystery", content |-> "x"]

ModelOutcomes ==
    << [kind |-> "raise", value |-> [e \in {} |-> e]],
       [kind |-> "unparseable", value |-> [e \in {} |-> e]],
       [kind |-> "array", value |-> [e \in {} |-> e]],
       [kind |-> "object",
        value |-> [adaptation_style |-> "Picture steps",
                   blocks |-> <<HeadingBlock, TextBlock, QuizBlock>>]],
       [kind |-> "object", value |-> [blocks |-> <<PlainBlock>>]],
       [kind |-> "object",
        value |-> [adaptation_style |-> "Plain", blocks |-> <<MysteryBlock>>]] >>

\* str.title() of the learning style, f"{...} Focus"
StyleFocus(style) ==
    CASE style = "visual" -> "Visual Focus"
      [] style = "auditory" -> "Auditory Focus"
      [] OTHER -> "Focus"

\* dict.get(key, default)
Get(d, key, default) == IF key \in DOMAIN d THEN d[key] ELSE default

\* bug variant: a failed model call or parse is swallowed and the defaults
\* are returned
adapt_lesson_swallow(outcome, profile) ==
    [ok |-> TRUE,
     error |-> "",
     value |->
       [adaptation_style |->
            Get(outcome.value, "adaptation_style", StyleFocus(profile)),
        blocks |-> Get(outcome.value, "blocks", <<>>)]]

\* GeminiAIService.adapt_lesson: every exception of the model call, of the
\* parse and of the .get on a non-object becomes one AIServiceError.
adapt_lesson(outcome, profile) ==
    IF outcome.kind = "object"
    THEN [ok |-> TRUE,
          error |-> "",
          value |->
            [adaptation_style |->
                 Get(outcome.value, "adaptation_style", StyleFocus(profile)),
             blocks |-> Get(outcome.value, "blocks", <<>>)]]
    ELSE [ok |-> FALSE,
          error |-> "EXTERNAL_SERVICE_ERROR",
          value |-> [e \in {} |-> e]]

----------------------------------------------------------------------------
(* Content blocks.  A decoded JSON entry is a function from its keys to    *)
(* their values; an entry that is not a dictionary has the one key         *)
(* "nondict".                                                              *)

IsDict(block) == "nondict" \notin DOMAIN block

\* ContentBlockType
ContentBlockType ==
    {"heading", "text", "image", "image_prompt", "video", "quiz",
     "quiz_check", "activity", "summary"}

\* a validator that lets any type tag through
valid_types_open == ContentBlockType \cup {"mystery"}

\* valid_types of _validate_blocks
valid_types ==
    {"heading", "text", "image", "image_prompt", "quiz", "quiz_check",
     "activity", "summary"}

\* d[key] = val, as a dictionary assignment
Put(d, key, val) ==
    [k \in DOMAIN d \cup {key} |-> IF k = key THEN val ELSE d[k]]

\* the body of the loop of _validate_blocks, for the dictionary at index i
validated_block(block, i) ==
    LET t == Get(block, "type", "text")
        block_type == IF t \notin valid_types THEN "text" ELSE t
        b0 == [id |-> Get(block, "id", ToString(i)),
               type |-> block_type,
               content |-> Get(block, "content", ""),
               order |-> i]
        b1 == IF block_type = "text" /\ "emphasis" \in DOMAIN block
              THEN Put(b0, "emphasis", block["emphasis"]) ELSE b0
        b2 == IF block_type \in {"image", "image_prompt"}
                 /\ "ai_generated_url" \in DOMAIN block
              THEN Put(b1, "ai_generated_url", block["ai_generated_url"]) ELSE b1
        b3 == IF block_type \in {"quiz", "quiz_check"}
              THEN Put(Put(Put(b2,
                     "question", Get(block, "question", Get(block, "content", ""))),
                     "options", Get(block, "options", <<>>)),
                     "correct_index", Get(block, "correct_index", 0))
              ELSE b2
    IN  b3

\* the loop of _validate_blocks from index i (0-based, as enumerate counts)
RECURSIVE validate_from(_, _)
validate_from(blocks, i) ==
    IF i >= Len(blocks) THEN <<>>
    ELSE IF ~IsDict(blocks[i + 1]) THEN validate_from(blocks, i + 1)
    ELSE <<validated_block(blocks[i + 1], i)>> \o validate_from(blocks, i + 1)

\* LessonAdaptationAgent._validate_blocks
validate_blocks(blocks) == validate_from(blocks, 0)

\* AdaptedLessonRepository._to_entity parses every stored block:
\* block.get fails on a non-dictionary, ContentBlockType(...) on a type
\* that is no member of the enumeration.
to_entity_ok(content_blocks) ==
    \A j \in 1..Len(content_blocks) :
        /\ IsDict(content_blocks[j])
        /\ Get(content_blocks[j], "type", "text") \in ContentBlockType

----------------------------------------------------------------------------
(* AdaptedLesson entity *)

increment_view_count(a) == [a EXCEPT !.view_count = @ + 1]
set_content_blocks(a, blocks) == [a EXCEPT !.content_blocks = blocks]
mark_as_ready(a) == [a EXCEPT !.status = READY]

\* AdaptedLesson(...) as play constructs it; the id is given by the insert
NewAdaptedLesson(lesson_id, student_id, lesson_title, adaptation_style) ==
    [id |-> 0,
     lesson_id |-> lesson_id,
     student_id |-> student_id,
     lesson_title |-> lesson_title,
     adaptation_style |-> adaptation_style,
     content_blocks |-> <<>>,
     status |-> PENDING,
     view_count |-> 0]

\* Lesson.increment_adaptation_count
increment_adaptation_count(lesson) ==
    [lesson EXCEPT !.adaptation_count = @ + 1]

----------------------------------------------------------------------------
(* Storage *)

\* AdaptedLessonRepository.get_by_lesson_and_student: the matching rows;
\* scalar_one_or_none raises when there is more than one.
PairRows(rows, lesson_id, student_id) ==
    {i \in 1..Len(rows) :
        rows[i].lesson_id = lesson_id /\ rows[i].student_id = student_id}

get_by_lesson_and_student(rows, lesson_id, student_id) ==
    PairRows(rows, lesson_id, student_id)

\* The columns a session writes back for a loaded row: those whose value
\* differs from what the session loaded.
MergeCols(cur, loaded, new) ==
    [c \in DOMAIN cur |-> IF new[c] # loaded[c] THEN new[c] ELSE cur[c]]

ApplyOp(d, op) ==
    CASE op.op = "insert_adapted" ->
            [d EXCEPT !.adapted_lessons =
                Append(@, [op.new EXCEPT !.id = Len(d.adapted_lessons) + 1])]
      [] op.op = "update_adapted" ->
            [d EXCEPT !.adapted_lessons[op.loaded.id] =
                MergeCols(@, op.loaded, op.new)]
      [] op.op = "update_lesson" ->
            [d EXCEPT !.lessons[op.id] = MergeCols(@, op.loaded, op.new)]

RECURSIVE Apply(_, _)
Apply(d, ops) ==
    IF ops = <<>> THEN d ELSE Apply(ApplyOp(d, Head(ops)), Tail(ops))

\* bug variant: every flush is committed at once
FlushWritesAutocommit(d, t, ops) == <<Apply(d, ops), t>>

\* session.flush() under autocommit=False: the writes join the transaction
\* and the committed store stays as it is.
FlushWrites(d, t, ops) == <<d, t \o ops>>

\* UnitOfWork.commit
commit(d, t) == Apply(d, t)

\* UnitOfWork.__aexit__ with an exception: rollback
rollback(d, t) == d

----------------------------------------------------------------------------
(* play: PlayLessonQuery.execute *)

\* bug variant: the status test never matches
CacheHitNever(adapted) == FALSE

\* the cache test of play
CacheHit(adapted) ==
    adapted # None /\ adapted[1].status = READY

\* bug variant: the view is not counted
CachedVersionNoCount(adapted, lesson) == adapted

\* bug variant: the cached entry is refreshed from the lesson
CachedVersionRetitled(adapted, lesson) ==
    [increment_view_count(adapted) EXCEPT !.lesson_title = lesson.title]

\* cached version: only the view counter changes
CachedVersion(adapted, lesson) == increment_view_count(adapted)

\* "Create or update adapted lesson": the entity play hands to the repository
GeneratedEntity(adapted, lesson_id, student_id, lesson, res) ==
    LET style == Get(res, "adaptation_style", "Personalized")
        blocks == Get(res, "blocks", <<>>)
    IN  IF adapted # None
        THEN mark_as_ready(set_content_blocks(
                 [adapted[1] EXCEPT !.lesson_title = lesson.title,
                                    !.adaptation_style = style],
                 blocks))
        ELSE mark_as_ready(set_content_blocks(
                 NewAdaptedLesson(lesson_id, student_id, lesson.title, style),
                 blocks))

\* bug variant: a regeneration creates a new entry
AdaptedWriteAlwaysCreate(adapted, entity) ==
    [op |-> "insert_adapted", id |-> "", loaded |-> entity, new |-> entity]

\* repository update of a found entry, repository create otherwise
AdaptedWrite(adapted, entity) ==
    IF adapted # None
    THEN [op |-> "update_adapted", id |-> "", loaded |-> adapted[1], new |-> entity]
    ELSE [op |-> "insert_adapted", id |-> "", loaded |-> entity, new |-> entity]

\* "Update lesson stats"
LessonWrite(lesson_id, lesson) ==
    [op |-> "update_lesson", id |-> lesson_id,
     loaded |-> lesson, new |-> increment_adaptation_count(lesson)]

NoResult ==
    [kind |-> "none", error |-> "", message |-> "", lesson_title |-> "",
     adaptation_style |-> "", blocks |-> <<>>, adapted_lesson_id |-> 0]

ErrorResult(code, message) ==
    [NoResult EXCEPT !.kind = "error", !.error = code, !.message = message]

\* bug variant: the missing profile surfaces as a generation error
MissingProfileAsAIError == ErrorResult("EXTERNAL_SERVICE_ERROR", "AI")

\* lines 69-73: the error of a student without a profile
MissingProfileError ==
    ErrorResult("VALIDATION_ERROR",
                "Student must complete assessment before accessing lessons")

PlayLessonOutput(kind, adapted, id) ==
    [kind |-> kind, error |-> "", message |-> "",
     lesson_title |-> adapted.lesson_title,
     adaptation_style |-> adapted.adaptation_style,
     blocks |-> adapted.content_blocks,
     adapted_lesson_id |-> id]

\* a request's locals; pre, gateway_calls, completions and outcome record
\* its history
IdleCall ==
    [lesson_id |-> "", student_id |-> "", lesson |-> None, adapted |-> None,
     profile |-> None, gen |-> None, written |-> None, tx |-> <<>>,
     gateway_calls |-> 0, completions |-> 0, outcome |-> "", pre |-> None, result |-> NoResult]

\* per pair: the blocks the last cache hit returned since the pair's last
\* generation, and the gateway failures since then (counted up to 2)
InitHist ==
    [pair \in Lessons \X Students |-> [cached |-> None, failures |-> 0]]

\* what has been committed so far: the generations of each lesson and the
\* cache hits served from each adapted lesson
InitTally ==
    [generations |-> [l \in Lessons |-> 0],
     views |-> [i \in 1..MaxPlays |-> 0]]

PairOf(c) == <<c.lesson_id, c.student_id>>

InitStore ==
    [adapted_lessons |-> <<>>,
     lessons |-> [l \in Lessons |->
                    [title |-> "Plants",
                     original_text_content |-> "Photosynthesis",
                     adaptation_count |-> 0]],
     neuro_profiles |-> [s \in Students |-> Some("visual")]]

\* no play request yet
IdlePlay ==
    /\ db = InitStore
    /\ pc = [p \in Procs |-> "idle"]
    /\ call = [p \in Procs |-> IdleCall]
    /\ hist = InitHist
    /\ tally = InitTally
    /\ plays = 0
    /\ envSteps = 0

\* the parts that take no part in a specification stay as they start
IdleValidate == raw = <<>> /\ validated = None

IdleExtract ==
    /\ response = ""
    /\ inner = None
    /\ parsed = [agent |-> None, gemini |-> None]

IdleGateway ==
    /\ reply = [kind |-> "raise", value |-> [e \in {} |-> e]]
    /\ learner = "visual"
    /\ adapt_result = [agent |-> None, gemini |-> None]

\* no pipeline run: nothing selected, no batch
IdleRun == [pc |-> "idle", selected |-> <<>>, batch_id |-> 0, marked_before |-> {}]

IdleCollect == interactions = <<>> /\ collected = None

IdlePipeline ==
    /\ clock = 0
    /\ run = IdleRun
    /\ batches = <<>>
    /\ marked = {}

IdleTrain ==
    /\ IdleCollect
    /\ training_logs = <<>>
    /\ IdlePipeline
    /\ sess = <<>>

\* no assessment submitted, no profile stored
IdleAssess ==
    /\ assessments = [s \in {} |-> s]
    /\ profiles = [s \in {} |-> s]
    /\ submitted = [n |-> 0, student_id |-> "", status |-> "", message |-> ""]

Init ==
    /\ IdlePlay /\ IdleValidate /\ IdleExtract /\ IdleGateway /\ IdleTrain
    /\ IdleAssess

\* lines 29-44: the lesson and the user are read and checked
Start(p, lesson_id, student_id) ==
    /\ pc[p] = "idle"
    /\ plays < MaxPlays
    /\ plays' = plays + 1
    /\ LET c == [IdleCall EXCEPT !.lesson_id = lesson_id,
                                 !.student_id = student_id,
                                 !.pre = Some(db)]
       IN  IF lesson_id \notin Lessons
           THEN /\ call' = [call EXCEPT ![p] =
                      [c EXCEPT !.result = ErrorResult("NOT_FOUND", "Lesson")]]
                /\ pc' = [pc EXCEPT ![p] = "done"]
           ELSE IF student_id \notin Users
           THEN /\ call' = [call EXCEPT ![p] =
                      [c EXCEPT !.result = ErrorResult("NOT_FOUND", "User")]]
                /\ pc' = [pc EXCEPT ![p] = "done"]
           ELSE IF ~is_student(student_id)
           THEN /\ call' = [call EXCEPT ![p] =
                      [c EXCEPT !.result = ErrorResult("VALIDATION_ERROR",
                                     "Only students can play lessons")]]
                /\ pc' = [pc EXCEPT ![p] = "done"]
           ELSE /\ call' = [call EXCEPT ![p] =
                      [c EXCEPT !.lesson = Some(db.lessons[lesson_id])]]
                /\ pc' = [pc EXCEPT ![p] = "lookup"]
    /\ UNCHANGED <<db, hist, tally, envSteps, validateVars, extractVars, gatewayVars, trainVars, assessVars>>

\* lines 46-52: the lookup of the pair's adapted lesson
Lookup(p) ==
    /\ pc[p] = "lookup"
    /\ LET c == call[p]
           found == get_by_lesson_and_student(db.adapted_lessons,
                                              c.lesson_id, c.student_id)
       IN  IF Cardinality(found) > 1
           THEN /\ call' = [call EXCEPT ![p].result =
                        ErrorResult("INTERNAL_ERROR", "MultipleResultsFound")]
                /\ pc' = [pc EXCEPT ![p] = "done"]
           ELSE LET adapted == IF found = {} THEN None
                               ELSE Some(db.adapted_lessons[CHOOSE i \in found : TRUE])
                IN  /\ call' = [call EXCEPT ![p].adapted = adapted]
                    /\ pc' = [pc EXCEPT ![p] =
                                IF CacheHit(adapted) THEN "hit" ELSE "profile"]
    /\ UNCHANGED <<db, hist, tally, plays, envSteps, validateVars, extractVars, gatewayVars, trainVars, assessVars>>

\* lines 53-65: the cached version is returned
ServeCached(p) ==
    /\ pc[p] = "hit"
    /\ LET c == call[p]
           adapted == CachedVersion(c.adapted[1], c.lesson[1])
           op == AdaptedWrite(c.adapted, adapted)
           f == FlushWrites(db, c.tx, <<op>>)
       IN  /\ db' = commit(f[1], f[2])
           /\ call' = [call EXCEPT ![p].tx = <<>>,
                                   ![p].written = Some(adapted),
                                   ![p].result =
                                      PlayLessonOutput("cached", adapted, adapted.id)]
           /\ hist' = [hist EXCEPT ![PairOf(c)].cached = Some(adapted.content_blocks)]
           /\ tally' = [tally EXCEPT !.views[adapted.id] = @ + 1]
    /\ pc' = [pc EXCEPT ![p] = "done"]
    /\ UNCHANGED <<plays, envSteps, validateVars, extractVars, gatewayVars, trainVars, assessVars>>

\* lines 67-73: the profile is required
GetProfile(p) ==
    /\ pc[p] = "profile"
    /\ LET profile == db.neuro_profiles[call[p].student_id]
       IN  IF profile = None
           THEN /\ call' = [call EXCEPT ![p].result = MissingProfileError]
                /\ pc' = [pc EXCEPT ![p] = "done"]
           ELSE /\ call' = [call EXCEPT ![p].profile = profile]
                /\ pc' = [pc EXCEPT ![p] = "gateway"]
    /\ UNCHANGED <<db, hist, tally, plays, envSteps, validateVars, extractVars, gatewayVars, trainVars, assessVars>>

\* bug variant: a failed model call is made again
generate_calls_retry(outcome) == IF outcome.kind = "raise" THEN 2 ELSE 1

\* GeminiAIService.adapt_lesson, line 56: the model is called once in the
\* try block, whatever comes of it
generate_calls(outcome) == 1

\* lines 75-83: the gateway call; its error leaves through __aexit__
CallGateway(p) ==
    /\ pc[p] = "gateway"
    /\ \E k \in DOMAIN ModelOutcomes :
         LET c == call[p]
             res == adapt_lesson(ModelOutcomes[k], c.profile[1])
         IN  IF res.ok
             THEN /\ call' = [call EXCEPT ![p].gen = Some(res.value),
                                          ![p].gateway_calls = @ + 1,
                                          ![p].completions =
                                              @ + generate_calls(ModelOutcomes[k]),
                                          ![p].outcome = ModelOutcomes[k].kind]
                  /\ pc' = [pc EXCEPT ![p] = "write"]
                  /\ db' = db
                  /\ hist' = hist
                  /\ tally' = tally
             ELSE /\ call' = [call EXCEPT ![p].gateway_calls = @ + 1,
                                          ![p].completions =
                                              @ + generate_calls(ModelOutcomes[k]),
                                          ![p].outcome = ModelOutcomes[k].kind,
                                          ![p].tx = <<>>,
                                          ![p].result = ErrorResult(res.error, "AI")]
                  /\ pc' = [pc EXCEPT ![p] = "done"]
                  /\ db' = rollback(db, c.tx)
                  /\ hist' = [hist EXCEPT ![PairOf(c)].failures =
                                 IF @ < 2 THEN @ + 1 ELSE @]
                  /\ tally' = tally
    /\ UNCHANGED <<plays, envSteps, validateVars, extractVars, gatewayVars, trainVars, assessVars>>

\* lines 85-113: the adapted lesson is written in the session and read
\* back as an entity, then the lesson; an entity that cannot be built
\* leaves through __aexit__
WriteGenerated(p) ==
    /\ pc[p] = "write"
    /\ LET c == call[p]
           entity == GeneratedEntity(c.adapted, c.lesson_id, c.student_id,
                                     c.lesson[1], c.gen[1])
           f1 == FlushWrites(db, c.tx, <<AdaptedWrite(c.adapted, entity)>>)
           f2 == FlushWrites(f1[1], f1[2], <<LessonWrite(c.lesson_id, c.lesson[1])>>)
       IN  IF to_entity_ok(entity.content_blocks)
           THEN /\ db' = f2[1]
                /\ call' = [call EXCEPT ![p].tx = f2[2],
                                        ![p].written = Some(entity)]
                /\ pc' = [pc EXCEPT ![p] = "commit"]
           ELSE /\ db' = rollback(f1[1], f1[2])
                /\ call' = [call EXCEPT ![p].tx = <<>>,
                                        ![p].result =
                                           ErrorResult("INTERNAL_ERROR", "ValueError")]
                /\ pc' = [pc EXCEPT ![p] = "done"]
    /\ UNCHANGED <<hist, tally, plays, envSteps, validateVars, extractVars, gatewayVars, trainVars, assessVars>>

\* lines 115-124: commit, and the new content is returned
CommitGenerated(p) ==
    /\ pc[p] = "commit"
    /\ LET c == call[p]
           d == commit(db, c.tx)
           id == IF c.adapted # None THEN c.adapted[1].id
                 ELSE Len(d.adapted_lessons)
       IN  /\ db' = d
           /\ call' = [call EXCEPT ![p].tx = <<>>,
                                   ![p].result =
                                      PlayLessonOutput("generated", c.written[1], id)]
           /\ hist' = [hist EXCEPT ![PairOf(c)] = [cached |-> None, failures |-> 0]]
           /\ tally' = [tally EXCEPT !.generations[c.lesson_id] = @ + 1]
    /\ pc' = [pc EXCEPT ![p] = "done"]
    /\ UNCHANGED <<plays, envSteps, validateVars, extractVars, gatewayVars, trainVars, assessVars>>

\* the response has been delivered
Return(p) ==
    /\ pc[p] = "done"
    /\ pc' = [pc EXCEPT ![p] = "idle"]
    /\ call' = [call EXCEPT ![p] = IdleCall]
    /\ UNCHANGED <<db, hist, tally, plays, envSteps, validateVars, extractVars, gatewayVars, trainVars, assessVars>>

----------------------------------------------------------------------------
(* What happens around play: other writers of the same tables *)

\* a repository update that moves an entry to a status other than ready
SetAdaptedStatus(i, status) ==
    /\ envSteps < MaxEnvSteps
    /\ i \in 1..Len(db.adapted_lessons)
    /\ status # db.adapted_lessons[i].status
    /\ db' = [db EXCEPT !.adapted_lessons[i].status = status]
    /\ envSteps' = envSteps + 1
    /\ UNCHANGED <<pc, call, hist, tally, plays, validateVars, extractVars, gatewayVars, trainVars, assessVars>>

\* the student's profile is deleted
DeleteProfile(s) ==
    /\ envSteps < MaxEnvSteps
    /\ db.neuro_profiles[s] # None
    /\ db' = [db EXCEPT !.neuro_profiles[s] = None]
    /\ envSteps' = envSteps + 1
    /\ UNCHANGED <<pc, call, hist, tally, plays, validateVars, extractVars, gatewayVars, trainVars, assessVars>>

\* an assessment creates the student's profile or updates it
SaveProfile(s, style) ==
    /\ envSteps < MaxEnvSteps
    /\ db.neuro_profiles[s] # Some(style)
    /\ db' = [db EXCEPT !.neuro_profiles[s] = Some(style)]
    /\ envSteps' = envSteps + 1
    /\ UNCHANGED <<pc, call, hist, tally, plays, validateVars, extractVars, gatewayVars, trainVars, assessVars>>

\* the teacher edits the lesson
EditLesson(l, title, text) ==
    /\ envSteps < MaxEnvSteps
    /\ <<title, text>> # <<db.lessons[l].title, db.lessons[l].original_text_content>>
    /\ db' = [db EXCEPT !.lessons[l].title = title,
                        !.lessons[l].original_text_content = text]
    /\ envSteps' = envSteps + 1
    /\ UNCHANGED <<pc, call, hist, tally, plays, validateVars, extractVars, gatewayVars, trainVars, assessVars>>

Around ==
    \/ \E i \in 1..MaxPlays, st \in AdaptedLessonStatus \ {READY} :
          SetAdaptedStatus(i, st)
    \/ \E s \in Students : DeleteProfile(s)
    \/ \E s \in Students, style \in LearningStyles : SaveProfile(s, style)
    \/ \E l \in Lessons, title \in Titles, text \in Texts : EditLesson(l, title, text)

Step(p) ==
    \/ Lookup(p)
    \/ ServeCached(p)
    \/ GetProfile(p)
    \/ CallGateway(p)
    \/ WriteGenerated(p)
    \/ CommitGenerated(p)
    \/ Return(p)

\* requests overlap freely
Next ==
    \/ \E p \in Procs, l \in LessonIds, u \in UserIds : Start(p, l, u)
    \/ \E p \in Procs : Step(p)

Spec == Init /\ [][Next]_vars

\* one request at a time, and nothing else writes while it runs
Quiet == \A p \in Procs : pc[p] = "idle"

NextSeq ==
    \/ Quiet /\ \E l \in LessonIds, u \in UserIds : Start("a", l, u)
    \/ Step("a")
    \/ Quiet /\ Around

SpecSeq == Init /\ [][NextSeq]_vars

----------------------------------------------------------------------------
(* The validator on its own *)

RawEntries ==
    { [nondict |-> "junk"],
      [type |-> "mystery", content |-> "x"],
      [type |-> "text", content |-> "t", order |-> 7, id |-> "b9",
       emphasis |-> <<"key">>],
      [type |-> "quiz", question |-> "q?"],
      [content |-> "c"],
      [type |-> "quiz_check", content |-> "cq", options |-> <<"a", "b">>,
       correct_index |-> 1, order |-> 0],
      [type |-> "video", content |-> "v"],
      [type |-> "quiz", content |-> "pick", correct_index |-> 2] }

RawLists == UNION {[1..n -> RawEntries] : n \in 0..MaxLen}

InitValidate ==
    /\ IdlePlay /\ IdleExtract /\ IdleGateway /\ IdleTrain
    /\ IdleAssess
    /\ raw \in RawLists
    /\ validated = None

Validate ==
    /\ validated = None
    /\ validated' = Some(validate_blocks(raw))
    /\ UNCHANGED <<playVars, raw, extractVars, gatewayVars, trainVars, assessVars>>

NextValidate == Validate

SpecValidate == InitValidate /\ [][NextValidate]_vars

----------------------------------------------------------------------------
(* Model text.  A text is a string; the backquote of a code fence is       *)
(* written ~ here, a character no response of the model uses otherwise.    *)

Fence == "~~~"
JsonFence == "~~~json"

\* the character at position i (1-based), "" outside the text
Ch(s, i) == IF i >= 1 /\ i <= Len(s) THEN SubSeq(s, i, i) ELSE ""

Whitespace == {" ", "\n", "\t"}
Digits == {"1", "2", "3", "4", "5", "6", "7", "8", "9"}

\* str.strip
RECURSIVE lstrip(_)
lstrip(s) == IF Ch(s, 1) \in Whitespace THEN lstrip(Tail(s)) ELSE s

RECURSIVE rstrip(_)
rstrip(s) ==
    IF Ch(s, Len(s)) \in Whitespace THEN rstrip(SubSeq(s, 1, Len(s) - 1))
    ELSE s

strip(s) == rstrip(lstrip(s))

\* str.startswith, str.endswith
startswith(s, prefix) ==
    Len(s) >= Len(prefix) /\ SubSeq(s, 1, Len(prefix)) = prefix

endswith(s, suffix) ==
    Len(s) >= Len(suffix)
    /\ SubSeq(s, Len(s) - Len(suffix) + 1, Len(s)) = suffix

\* text[start:end], 0-based and end-exclusive as Python slices
slice(s, start, end) == SubSeq(s, start + 1, end)

\* str.find and str.rfind of one character: 0-based index, -1 if absent
RECURSIVE find_from(_, _, _)
find_from(s, c, i) ==
    IF i > Len(s) THEN -1
    ELSE IF Ch(s, i) = c THEN i - 1 ELSE find_from(s, c, i + 1)

find(s, c) == find_from(s, c, 1)

RECURSIVE rfind_from(_, _, _)
rfind_from(s, c, i) ==
    IF i < 1 THEN -1
    ELSE IF Ch(s, i) = c THEN i - 1 ELSE rfind_from(s, c, i - 1)

rfind(s, c) == rfind_from(s, c, Len(s))

----------------------------------------------------------------------------
(* json.loads, for objects, arrays, strings without escapes and positive   *)
(* integers.  The parsed value is written in its canonical text: the       *)
(* input without the whitespace between its tokens.                        *)

ParseFail == [ok |-> FALSE, pos |-> 0, out |-> ""]

RECURSIVE SkipWs(_, _)
SkipWs(s, i) == IF Ch(s, i) \in Whitespace THEN SkipWs(s, i + 1) ELSE i

\* position of the closing quote at or after i, 0 if the string does not
\* end or holds a control character
RECURSIVE StringEnd(_, _)
StringEnd(s, i) ==
    IF i > Len(s) \/ Ch(s, i) \in {"\n", "\t"} THEN 0
    ELSE IF Ch(s, i) = "\"" THEN i ELSE StringEnd(s, i + 1)

ParseString(s, j) ==
    LET k == StringEnd(s, j + 1)
    IN  IF k = 0 THEN ParseFail
        ELSE [ok |-> TRUE, pos |-> k + 1, out |-> SubSeq(s, j, k)]

RECURSIVE NumberEnd(_, _)
NumberEnd(s, i) == IF Ch(s, i) \in Digits THEN NumberEnd(s, i + 1) ELSE i

ParseNumber(s, j) ==
    [ok |-> TRUE, pos |-> NumberEnd(s, j),
     out |-> SubSeq(s, j, NumberEnd(s, j) - 1)]

RECURSIVE ParseValue(_, _)
RECURSIVE ParseElements(_, _, _)
RECURSIVE ParseMembers(_, _, _)

\* the value that starts at or after position i
ParseValue(s, i) ==
    LET j == SkipWs(s, i)
        c == Ch(s, j)
        k == SkipWs(s, j + 1)
    IN  CASE c = "{" ->
               IF Ch(s, k) = "}"
               THEN [ok |-> TRUE, pos |-> k + 1, out |-> "{}"]
               ELSE ParseMembers(s, j + 1, "{")
          [] c = "[" ->
               IF Ch(s, k) = "]"
               THEN [ok |-> TRUE, pos |-> k + 1, out |-> "[]"]
               ELSE ParseElements(s, j + 1, "[")
          [] c = "\"" -> ParseString(s, j)
          [] c \in Digits -> ParseNumber(s, j)
          [] OTHER -> ParseFail

\* the elements of an array from position i, acc the canonical text so far
ParseElements(s, i, acc) ==
    LET v == ParseValue(s, i)
        k == SkipWs(s, v.pos)
    IN  IF ~v.ok THEN ParseFail
        ELSE IF Ch(s, k) = "," THEN ParseElements(s, k + 1, acc \o v.out \o ",")
        ELSE IF Ch(s, k) = "]"
             THEN [ok |-> TRUE, pos |-> k + 1, out |-> acc \o v.out \o "]"]
        ELSE ParseFail

\* the members of an object from position i
ParseMembers(s, i, acc) ==
    LET j == SkipWs(s, i)
        key == IF Ch(s, j) = "\"" THEN ParseString(s, j) ELSE ParseFail
        c == SkipWs(s, key.pos)
        v == IF key.ok /\ Ch(s, c) = ":" THEN ParseValue(s, c + 1) ELSE ParseFail
        k == SkipWs(s, v.pos)
    IN  IF ~v.ok THEN ParseFail
        ELSE IF Ch(s, k) = ","
             THEN ParseMembers(s, k + 1, acc \o key.out \o ":" \o v.out \o ",")
        ELSE IF Ch(s, k) = "}"
             THEN [ok |-> TRUE, pos |-> k + 1,
                   out |-> acc \o key.out \o ":" \o v.out \o "}"]
        ELSE ParseFail

\* json.loads: one value and nothing but whitespace after it
json_loads(s) ==
    LET v == ParseValue(s, 1)
    IN  IF v.ok /\ SkipWs(s, v.pos) > Len(s)
        THEN [ok |-> TRUE, value |-> v.out, error |-> ""]
        ELSE [ok |-> FALSE, value |-> "", error |-> "JSONDecodeError"]

----------------------------------------------------------------------------
(* The two response parsers *)

\* a parser that takes three characters off a json fence as off a bare one
unfence_short(raw_text) ==
    LET text == strip(raw_text)
        t1 == IF startswith(text, Fence) THEN slice(text, 3, Len(text))
              ELSE text
        t2 == IF endswith(t1, Fence) THEN slice(t1, 0, Len(t1) - 3) ELSE t1
    IN  strip(t2)

\* strip, take the leading and the trailing fence off, strip
unfence(raw_text) ==
    LET text == strip(raw_text)
        t1 == IF startswith(text, JsonFence) THEN slice(text, 7, Len(text))
              ELSE IF startswith(text, Fence) THEN slice(text, 3, Len(text))
              ELSE text
        t2 == IF endswith(t1, Fence) THEN slice(t1, 0, Len(t1) - 3) ELSE t1
    IN  strip(t2)

NoJson == [ok |-> FALSE, value |-> "", error |-> "ValueError"]

\* LessonAdaptationAgent._parse_response
parse_response(response_text) ==
    LET text == unfence(response_text)
        start == find(text, "{")
        end == rfind(text, "}") + 1
    IN  IF json_loads(text).ok THEN json_loads(text)
        ELSE IF start >= 0 /\ end > start
             THEN json_loads(slice(text, start, end))
        ELSE NoJson

\* GeminiAIService._parse_json_response
parse_json_response(response_text) ==
    LET text == unfence(response_text)
        start == find(text, "{")
        end == rfind(text, "}") + 1
        astart == find(text, "[")
        aend == rfind(text, "]") + 1
    IN  IF json_loads(text).ok THEN json_loads(text)
        ELSE IF start >= 0 /\ end > start
             THEN json_loads(slice(text, start, end))
        ELSE IF astart >= 0 /\ aend > astart
             THEN json_loads(slice(text, astart, aend))
        ELSE NoJson

\* valid JSON objects and arrays
JsonTexts ==
    { "{\"adaptation_style\": \"Plain\", \"blocks\": [1, 2]}",
      "[1, \"a\"]",
      "[]",
      "{}",
      "[{\"k\": 1}]",
      "[\"~~~\"]",
      "{\"k\": \"}\"}",
      "[\"a]\", 2]",
      "{\"a\": {\"b\": [ ]},\n \"c\": 3}" }

\* the ways a model fences its answer
Fenced(text) ==
    { JsonFence \o "\n" \o text \o "\n" \o Fence,
      JsonFence \o text \o Fence,
      " " \o JsonFence \o "\n" \o text \o "\n" \o Fence \o " \n",
      JsonFence \o " \n\n" \o text \o "\t" \o Fence }

\* answers that are no fenced JSON value
NoisyTexts ==
    { "Here you go: {\"k\": 1} enjoy",
      "Sure: [1, 2]",
      "no json",
      "{\"k\": 1",
      "~~~json\n{\"k\": 1}",
      "~~~\n[1]\n~~~",
      "[1] and {2}",
      "" }

InitExtract ==
    /\ IdlePlay /\ IdleValidate /\ IdleGateway /\ IdleTrain
    /\ IdleAssess
    /\ \/ \E text \in JsonTexts :
             /\ inner = Some(text)
             /\ response \in Fenced(text)
       \/ /\ inner = None
          /\ response \in NoisyTexts \cup JsonTexts
    /\ parsed = [agent |-> None, gemini |-> None]

ParseAgent ==
    /\ parsed.agent = None
    /\ parsed' = [parsed EXCEPT !.agent = Some(parse_response(response))]
    /\ UNCHANGED <<playVars, validateVars, response, inner, gatewayVars, trainVars, assessVars>>

ParseGemini ==
    /\ parsed.gemini = None
    /\ parsed' = [parsed EXCEPT !.gemini = Some(parse_json_response(response))]
    /\ UNCHANGED <<playVars, validateVars, response, inner, gatewayVars, trainVars, assessVars>>

NextExtract == ParseAgent \/ ParseGemini

SpecExtract == InitExtract /\ [][NextExtract]_vars

----------------------------------------------------------------------------
(* The two adapt calls on their own.  A reply is what the model call and   *)
(* the parse of its text give; the value of "blocks" that is no list is    *)
(* written as the one-entry sequence <<[nonlist |-> kind]>>.               *)

NonList(blocks) == Len(blocks) = 1 /\ "nonlist" \in DOMAIN blocks[1]

StringBlocks == <<[nonlist |-> "string"]>>
NullBlocks == <<[nonlist |-> "null"]>>

\* what enumerate(blocks) yields: the entries of a list, the characters of
\* a string; None is not iterable
Iterable(blocks) == ~NonList(blocks) \/ blocks = StringBlocks

Enumerated(blocks) ==
    IF blocks = StringBlocks
    THEN <<[nondict |-> "o"], [nondict |-> "o"], [nondict |-> "p"],
           [nondict |-> "s"]>>
    ELSE blocks

AIServiceError ==
    [ok |-> FALSE, error |-> "EXTERNAL_SERVICE_ERROR",
     value |-> [e \in {} |-> e]]

\* LessonAdaptationAgent.adapt_lesson, lines 61-78: the parsed object with
\* its blocks replaced by the validated ones; any exception becomes one
\* AIServiceError
agent_adapt_lesson(model_reply) ==
    IF model_reply.kind # "object" THEN AIServiceError
    ELSE IF ~Iterable(Get(model_reply.value, "blocks", <<>>)) THEN AIServiceError
    ELSE [ok |-> TRUE,
          error |-> "",
          value |-> Put(model_reply.value, "blocks",
                        validate_blocks(
                            Enumerated(Get(model_reply.value, "blocks", <<>>))))]

\* what the "blocks" of a parsed object can be
BlocksValues == RawLists \cup {StringBlocks, NullBlocks}

\* the parsed objects: with and without a style, with and without blocks
ObjectReplies ==
    {[adaptation_style |-> "Plain"]}
    \cup {[blocks |-> b] : b \in BlocksValues}
    \cup {[adaptation_style |-> "Plain", blocks |-> b] : b \in BlocksValues}

GatewayReplies ==
    { [kind |-> k, value |-> [e \in {} |-> e]] :
        k \in {"raise", "unparseable", "array"} }
    \cup { [kind |-> "object", value |-> v] : v \in ObjectReplies }

InitGateway ==
    /\ IdlePlay /\ IdleValidate /\ IdleExtract /\ IdleTrain
    /\ IdleAssess
    /\ reply \in GatewayReplies
    /\ learner \in LearningStyles
    /\ adapt_result = [agent |-> None, gemini |-> None]

AdaptAgent ==
    /\ adapt_result.agent = None
    /\ adapt_result' =
           [adapt_result EXCEPT !.agent = Some(agent_adapt_lesson(reply))]
    /\ UNCHANGED <<playVars, validateVars, extractVars, reply, learner, trainVars, assessVars>>

AdaptGemini ==
    /\ adapt_result.gemini = None
    /\ adapt_result' =
           [adapt_result EXCEPT !.gemini = Some(adapt_lesson(reply, learner))]
    /\ UNCHANGED <<playVars, validateVars, extractVars, reply, learner, trainVars, assessVars>>

NextGateway == AdaptAgent \/ AdaptGemini

SpecGateway == InitGateway /\ [][NextGateway]_vars

----------------------------------------------------------------------------
(* Training data: the log entity and the pipeline's collect function *)

\* TrainingDataLog(...) with the defaults of the dataclass
NewTrainingDataLog(id, source_id, input_context, model_output) ==
    [id |-> id,
     source_id |-> source_id,
     source_type |-> "adapted_lesson",
     input_context |-> input_context,
     model_output |-> model_output,
     human_correction |-> None,
     metric_score |-> None,
     quality_rating |-> None,
     was_accepted |-> TRUE,
     corrected_by_user_id |-> None,
     correction_type |-> None,
     correction_notes |-> None,
     is_processed |-> FALSE,
     processed_at |-> None,
     training_batch_id |-> None]

\* TrainingDataLog.add_correction
add_correction(log, correction, user_id, correction_type, notes) ==
    [log EXCEPT !.human_correction = Some(correction),
                !.corrected_by_user_id = Some(user_id),
                !.correction_type = Some(correction_type),
                !.correction_notes = notes,
                !.was_accepted = FALSE]

\* TrainingDataLog.add_implicit_feedback
add_implicit_feedback(log, score) == [log EXCEPT !.metric_score = Some(score)]

\* max(1, min(5, rating))
ClampRating(rating) ==
    IF rating < 1 THEN 1 ELSE IF rating > 5 THEN 5 ELSE rating

\* TrainingDataLog.add_explicit_rating
add_explicit_rating(log, rating) ==
    [log EXCEPT !.quality_rating = Some(ClampRating(rating))]

\* TrainingDataLog.mark_processed
mark_processed(log, batch_id, now) ==
    [log EXCEPT !.is_processed = TRUE,
                !.processed_at = Some(now),
                !.training_batch_id = Some(batch_id)]

\* TrainingDataLog.to_training_format: the test of line 85 is the truth
\* value of the payload, which None and the empty dictionary do not have
to_training_format(log) ==
    IF log.human_correction # None /\ DOMAIN log.human_correction[1] # {}
       /\ ~log.was_accepted
    THEN [input |-> log.input_context,
          rejected |-> log.model_output,
          chosen |-> log.human_correction,
          correction_type |-> log.correction_type]
    ELSE [input |-> log.input_context,
          output |-> log.model_output,
          quality_score |-> IF log.metric_score \notin {None, Some(0)}
                            THEN log.metric_score ELSE log.quality_rating]

\* TrainingDataLog.has_correction
has_correction(log) == log.human_correction # None

\* TrainingDataPipeline._extract_instruction
extract_instruction(input_context) ==
    IF "instruction" \in DOMAIN input_context
    THEN input_context["instruction"]
    ELSE IF "block_type" \in DOMAIN input_context
         THEN "Generate adapted " \o input_context["block_type"]
                  \o " content for a student"
    ELSE IF "profile" \in DOMAIN input_context
         THEN "Adapt the following lesson content for the student profile"
    ELSE "Generate educational content"

\* TrainingDataPipeline._create_sft_sample, without the serialized payloads
create_sft_sample(log) ==
    [id |-> log.id,
     instruction |-> extract_instruction(log.input_context),
     quality_score |-> log.metric_score]

\* TrainingDataPipeline._create_dpo_sample, without the serialized payloads
create_dpo_sample(log) ==
    [id |-> log.id,
     prompt |-> extract_instruction(log.input_context),
     correction_type |-> log.correction_type,
     corrector_id |-> log.corrected_by_user_id]

\* a pipeline that looks at the acceptance flag before the correction
sample_kind_accepted_first(log) ==
    IF log.was_accepted THEN "sft"
    ELSE IF has_correction(log) THEN "dpo"
    ELSE "none"

\* lines 48-58 of prepare_training_data: the list a log goes to
sample_kind(log) ==
    IF has_correction(log) THEN "dpo"
    ELSE IF log.was_accepted THEN "sft"
    ELSE "none"

\* the samples of one kind, in the order of the logs
RECURSIVE samples_of(_, _)
samples_of(logs, kind) ==
    IF logs = <<>> THEN <<>>
    ELSE IF sample_kind(Head(logs)) # kind THEN samples_of(Tail(logs), kind)
    ELSE <<IF kind = "sft" THEN create_sft_sample(Head(logs))
           ELSE create_dpo_sample(Head(logs))>>
         \o samples_of(Tail(logs), kind)

\* TrainingDataPipeline.prepare_training_data
prepare_training_data(logs, batch_id) ==
    [batch_id |-> batch_id,
     sft_data |-> samples_of(logs, "sft"),
     dpo_data |-> samples_of(logs, "dpo"),
     stats |->
        [total_samples |->
             Len(samples_of(logs, "sft")) + Len(samples_of(logs, "dpo")),
         sft_samples |-> Len(samples_of(logs, "sft")),
         dpo_samples |-> Len(samples_of(logs, "dpo"))]]

\* the input contexts a log is written with
InputContexts ==
    { [instruction |-> "Simplify the text"],
      [block_id |-> "0", block_type |-> "text", original_content |-> "x"],
      [topic |-> "plants"] }

TheCorrection == [content |-> "Plants make food from light"]

\* the logs collect can be handed: every combination of a correction
\* payload (none, the empty dictionary, a correction) and the acceptance flag
LogShapes ==
    { [NewTrainingDataLog(0, 1, c, PlainBlock)
         EXCEPT !.human_correction = h, !.was_accepted = a] :
        c \in InputContexts,
        h \in {None, Some([k \in {} |-> k]), Some(TheCorrection)},
        a \in BOOLEAN }

\* the list with its positions as ids
Numbered(logs) == [i \in 1..Len(logs) |-> [logs[i] EXCEPT !.id = i]]

InitCollect ==
    /\ IdlePlay /\ IdleValidate /\ IdleExtract /\ IdleGateway
    /\ IdleAssess
    /\ \E n \in 0..MaxLen : \E logs \in [1..n -> LogShapes] :
          interactions = Numbered(logs)
    /\ collected = None
    /\ training_logs = <<>>
    /\ IdlePipeline
    /\ sess = <<>>

Collect ==
    /\ collected = None
    /\ collected' = Some(prepare_training_data(interactions, "batch_1"))
    /\ UNCHANGED <<playVars, validateVars, extractVars, gatewayVars,
                   interactions, training_logs, pipelineVars, sess, assessVars>>

NextCollect == Collect

SpecCollect == InitCollect /\ [][NextCollect]_vars

----------------------------------------------------------------------------
(* The training log table, teacher feedback and the pipeline runs *)

MaxLogs == 2
MaxRuns == 2
MaxMarks == 2
MaxLimit == 2

\* User.is_teacher
is_teacher(u) == u \in Teachers

\* the store after the first play of L1 by s1
PlayedStore ==
    commit(InitStore,
           <<AdaptedWrite(None,
                 GeneratedEntity(None, "L1", "s1", InitStore.lessons["L1"],
                                 adapt_lesson(ModelOutcomes[4], "visual").value)),
             LessonWrite("L1", InitStore.lessons["L1"])>>)

\* str(block.get("id")) and block.get(key) as the feedback command reads
\* them; Python's None is written "None"
StrOf(block, key) == Get(block, key, "None")

\* lines 38-42: the first block whose id is block_id, None if there is none
RECURSIVE find_block(_, _)
find_block(blocks, block_id) ==
    IF blocks = <<>> THEN None
    ELSE IF StrOf(Head(blocks), "id") = block_id THEN Some(Head(blocks))
    ELSE find_block(Tail(blocks), block_id)

\* lines 47-66: the log the feedback command creates
feedback_log(id, adapted_lesson, block_data, block_id, correction, teacher_id, correction_type) ==
    add_correction(
        NewTrainingDataLog(id, adapted_lesson.id,
                           [block_id |-> block_id,
                            block_type |-> StrOf(block_data, "type"),
                            original_content |-> StrOf(block_data, "content")],
                           block_data),
        [content |-> correction], teacher_id, correction_type, None)

Unprocessed(row) == ~row.is_processed
UnprocessedWithCorrection(row) ==
    row.human_correction # None /\ ~row.is_processed

\* LIMIT
Limit(rows, limit) ==
    SubSeq(rows, 1, IF Len(rows) < limit THEN Len(rows) ELSE limit)

\* a selection that forgets the processed flag
list_unprocessed_all(rows, limit) == Limit(rows, limit)

\* TrainingDataRepository.list_unprocessed; the rows are kept in the order
\* of created_at
list_unprocessed(rows, limit) == Limit(SelectSeq(rows, Unprocessed), limit)

\* TrainingDataRepository.list_with_corrections
list_with_corrections(rows, limit) ==
    Limit(SelectSeq(rows, UnprocessedWithCorrection), limit)

\* TrainingDataRepository.mark_batch_processed: one UPDATE of every row
\* whose id is in log_ids
mark_batch_processed(rows, log_ids, batch_id, now) ==
    [i \in 1..Len(rows) |->
        IF rows[i].id \in log_ids
        THEN [rows[i] EXCEPT !.is_processed = TRUE,
                             !.processed_at = Some(now),
                             !.training_batch_id = Some(batch_id)]
        ELSE rows[i]]

IdsOf(logs) == {logs[i].id : i \in 1..Len(logs)}

InitPipeline ==
    /\ db = PlayedStore
    /\ pc = [p \in Procs |-> "idle"]
    /\ call = [p \in Procs |-> IdleCall]
    /\ hist = InitHist
    /\ tally = InitTally
    /\ plays = 0
    /\ envSteps = 0
    /\ IdleValidate /\ IdleExtract /\ IdleGateway /\ IdleCollect
    /\ IdleAssess
    /\ training_logs = <<>>
    /\ IdlePipeline
    /\ sess = <<>>

\* TrainingDataRepository.create of a log as the dataclass makes it, and
\* the commit
CreateLog(source_id, input_context) ==
    /\ Len(training_logs) < MaxLogs
    /\ training_logs' =
           Append(training_logs,
                  NewTrainingDataLog(Len(training_logs) + 1, source_id,
                                     input_context, PlainBlock))
    /\ UNCHANGED <<playVars, validateVars, extractVars, gatewayVars,
                   collectVars, pipelineVars, sess, assessVars>>

\* SubmitFeedbackCommand.execute
SubmitFeedback(teacher_id, adapted_lesson_id, block_id, correction_type) ==
    /\ Len(training_logs) < MaxLogs
    /\ teacher_id \in Users
    /\ is_teacher(teacher_id)
    /\ adapted_lesson_id \in 1..Len(db.adapted_lessons)
    /\ to_entity_ok(db.adapted_lessons[adapted_lesson_id].content_blocks)
    /\ LET adapted_lesson == db.adapted_lessons[adapted_lesson_id]
           block_data == find_block(adapted_lesson.content_blocks, block_id)
       IN  /\ block_data # None
           /\ training_logs' =
                  Append(training_logs,
                         feedback_log(Len(training_logs) + 1, adapted_lesson,
                                      block_data[1], block_id,
                                      "Plants make food from light",
                                      teacher_id, correction_type))
    /\ UNCHANGED <<playVars, validateVars, extractVars, gatewayVars,
                   collectVars, pipelineVars, sess, assessVars>>

\* a pipeline run starts: start_batch, then one of the two selections
StartRun(query, limit) ==
    /\ run.pc = "idle"
    /\ Len(batches) < MaxRuns
    /\ run' = [pc |-> "selected",
               selected |-> IF query = "unprocessed"
                            THEN list_unprocessed(training_logs, limit)
                            ELSE list_with_corrections(training_logs, limit),
               batch_id |-> Len(batches) + 1,
               marked_before |-> marked]
    /\ UNCHANGED <<playVars, validateVars, extractVars, gatewayVars,
                   collectVars, training_logs, clock, batches, marked, sess, assessVars>>

\* the selected logs are folded into the batch
CollectRun ==
    /\ run.pc = "selected"
    /\ run' = [run EXCEPT !.pc = "collected"]
    /\ batches' = Append(batches,
                         prepare_training_data(run.selected, run.batch_id))
    /\ UNCHANGED <<playVars, validateVars, extractVars, gatewayVars,
                   collectVars, training_logs, clock, marked, sess, assessVars>>

\* the run marks what it selected, and commits
MarkRun ==
    /\ run.pc = "collected"
    /\ training_logs' = mark_batch_processed(training_logs, IdsOf(run.selected),
                                             run.batch_id, clock + 1)
    /\ clock' = clock + 1
    /\ marked' = marked \cup IdsOf(run.selected)
    /\ run' = IdleRun
    /\ UNCHANGED <<playVars, validateVars, extractVars, gatewayVars,
                   collectVars, batches, sess, assessVars>>

\* mark_batch_processed called on its own, for any ids and any batch id
Remark(log_ids, batch_id) ==
    /\ clock < MaxMarks
    /\ log_ids # {}
    /\ training_logs' = mark_batch_processed(training_logs, log_ids, batch_id,
                                             clock + 1)
    /\ clock' = clock + 1
    /\ marked' = marked \cup log_ids
    /\ UNCHANGED <<playVars, validateVars, extractVars, gatewayVars,
                   collectVars, run, batches, sess, assessVars>>

NextPipeline ==
    \/ \E a \in 1..Len(db.adapted_lessons) :
          CreateLog(a, [instruction |-> "Simplify the text"])
    \/ \E u \in Users, a \in 1..(Len(db.adapted_lessons) + 1),
          b \in {"None", "b7"} :
          SubmitFeedback(u, a, b, "content")
    \/ \E q \in {"unprocessed", "with_corrections"}, n \in 1..MaxLimit :
          StartRun(q, n)
    \/ CollectRun
    \/ MarkRun
    \/ \E ids \in SUBSET IdsOf(training_logs), b \in 1..(MaxRuns + 1) :
          Remark(ids, b)

SpecPipeline == InitPipeline /\ [][NextPipeline]_vars

----------------------------------------------------------------------------
(* Sessions that read one log, change the entity and write it back *)

Editors == {"e1", "e2"}

IdleSession == [pc |-> "idle", loaded |-> None, entity |-> None]

\* the columns TrainingDataRepository.update copies from the entity
UpdateCols ==
    {"human_correction", "metric_score", "quality_rating", "was_accepted",
     "corrected_by_user_id", "correction_type", "correction_notes",
     "is_processed", "processed_at", "training_batch_id"}

\* TrainingDataRepository.update, lines 83-95, and the commit: the model
\* instance gets the entity's value in each of the ten columns, and the
\* flush writes the columns whose value changed on the instance.
update_log(row, model, log) ==
    [c \in DOMAIN row |->
        IF c \in UpdateCols /\ log[c] # model[c] THEN log[c] ELSE row[c]]

\* the table after some feedback and some logging: one accepted log
InitEdit ==
    /\ db = PlayedStore
    /\ pc = [p \in Procs |-> "idle"]
    /\ call = [p \in Procs |-> IdleCall]
    /\ hist = InitHist
    /\ tally = InitTally
    /\ plays = 0
    /\ envSteps = 0
    /\ IdleValidate /\ IdleExtract /\ IdleGateway /\ IdleCollect
    /\ IdleAssess
    /\ training_logs =
           <<NewTrainingDataLog(1, 1, [instruction |-> "Simplify the text"],
                                PlainBlock)>>
    /\ IdlePipeline
    /\ sess = [e \in Editors |-> IdleSession]

\* TrainingDataRepository.get_by_id: the entity is a copy of the row
Load(e, log_id) ==
    /\ sess[e].pc = "idle"
    /\ log_id \in 1..Len(training_logs)
    /\ sess' = [sess EXCEPT ![e] = [pc |-> "loaded",
                                    loaded |-> Some(training_logs[log_id]),
                                    entity |-> Some(training_logs[log_id])]]
    /\ UNCHANGED <<playVars, validateVars, extractVars, gatewayVars,
                   collectVars, training_logs, pipelineVars, assessVars>>

AddCorrection(e, user_id) ==
    /\ sess[e].pc = "loaded"
    /\ sess' = [sess EXCEPT ![e].entity =
                   Some(add_correction(@[1], TheCorrection, user_id, "content",
                                       None))]
    /\ UNCHANGED <<playVars, validateVars, extractVars, gatewayVars,
                   collectVars, training_logs, pipelineVars, assessVars>>

AddImplicitFeedback(e, score) ==
    /\ sess[e].pc = "loaded"
    /\ sess' = [sess EXCEPT ![e].entity = Some(add_implicit_feedback(@[1], score))]
    /\ UNCHANGED <<playVars, validateVars, extractVars, gatewayVars,
                   collectVars, training_logs, pipelineVars, assessVars>>

AddExplicitRating(e, rating) ==
    /\ sess[e].pc = "loaded"
    /\ sess' = [sess EXCEPT ![e].entity = Some(add_explicit_rating(@[1], rating))]
    /\ UNCHANGED <<playVars, validateVars, extractVars, gatewayVars,
                   collectVars, training_logs, pipelineVars, assessVars>>

MarkProcessed(e, batch_id) ==
    /\ sess[e].pc = "loaded"
    /\ clock < MaxMarks
    /\ clock' = clock + 1
    /\ sess' = [sess EXCEPT ![e].entity =
                   Some(mark_processed(@[1], batch_id, clock + 1))]
    /\ UNCHANGED <<playVars, validateVars, extractVars, gatewayVars,
                   collectVars, training_logs, run, batches, marked, assessVars>>

\* repository update and commit.  The session refers to its instances
\* weakly: the instance read by get_by_id is either still there (kept),
\* with the values it was loaded with, or was collected and is read again.
Save(e, kept) ==
    /\ sess[e].pc = "loaded"
    /\ LET log == sess[e].entity[1]
           row == training_logs[log.id]
           model == IF kept THEN sess[e].loaded[1] ELSE row
       IN  training_logs' =
               [training_logs EXCEPT ![log.id] = update_log(row, model, log)]
    /\ sess' = [sess EXCEPT ![e] = IdleSession]
    /\ UNCHANGED <<playVars, validateVars, extractVars, gatewayVars,
                   collectVars, pipelineVars, assessVars>>

NextEdit ==
    \/ \E e \in Editors, i \in 1..MaxLogs : Load(e, i)
    \/ \E e \in Editors : AddCorrection(e, "t1")
    \/ \E e \in Editors : AddImplicitFeedback(e, 1)
    \/ \E e \in Editors : AddExplicitRating(e, 9)
    \/ \E e \in Editors : MarkProcessed(e, 1)
    \/ \E e \in Editors, kept \in BOOLEAN : Save(e, kept)
    \/ Remark(IdsOf(training_logs), 1)

SpecEdit == InitEdit /\ [][NextEdit]_vars

----------------------------------------------------------------------------
(* Two pipeline runs at the same time, each in its own session *)

Runners == {1, 2}

\* the stored logs the runs find: accepted logs and corrected ones
StoredLogs ==
    {NewTrainingDataLog(0, 1, [instruction |-> "Simplify the text"], PlainBlock),
     add_correction(
         NewTrainingDataLog(0, 1, [instruction |-> "Simplify the text"], PlainBlock),
         TheCorrection, "t1", "content", None)}

InitOverlap ==
    /\ IdlePlay /\ IdleValidate /\ IdleExtract /\ IdleGateway /\ IdleCollect
    /\ IdleAssess
    /\ \E n \in 1..MaxLogs : \E logs \in [1..n -> StoredLogs] :
          training_logs = Numbered(logs)
    /\ IdlePipeline
    /\ sess = [r \in Runners |-> IdleRun]

\* start_batch and one of the two selections; the batch id is the run's own
Select(r, query, limit) ==
    /\ sess[r].pc = "idle"
    /\ sess' = [sess EXCEPT ![r] =
                  [pc |-> "selected",
                   selected |-> IF query = "unprocessed"
                                THEN list_unprocessed(training_logs, limit)
                                ELSE list_with_corrections(training_logs, limit),
                   batch_id |-> r,
                   marked_before |-> marked]]
    /\ UNCHANGED <<playVars, validateVars, extractVars, gatewayVars,
                   collectVars, training_logs, pipelineVars, assessVars>>

\* the selected logs are folded into the run's batch
Fold(r) ==
    /\ sess[r].pc = "selected"
    /\ sess' = [sess EXCEPT ![r].pc = "collected"]
    /\ batches' = Append(batches,
                         prepare_training_data(sess[r].selected, sess[r].batch_id))
    /\ UNCHANGED <<playVars, validateVars, extractVars, gatewayVars,
                   collectVars, training_logs, clock, run, marked, assessVars>>

\* the run marks what it selected, and commits
Mark(r) ==
    /\ sess[r].pc = "collected"
    /\ training_logs' = mark_batch_processed(training_logs, IdsOf(sess[r].selected),
                                             sess[r].batch_id, clock + 1)
    /\ clock' = clock + 1
    /\ marked' = marked \cup IdsOf(sess[r].selected)
    /\ sess' = [sess EXCEPT ![r].pc = "marked"]
    /\ UNCHANGED <<playVars, validateVars, extractVars, gatewayVars,
                   collectVars, run, batches, assessVars>>

NextOverlap ==
    \/ \E r \in Runners, q \in {"unprocessed", "with_corrections"},
          n \in 1..MaxLimit : Select(r, q, n)
    \/ \E r \in Runners : Fold(r)
    \/ \E r \in Runners : Mark(r)

SpecOverlap == InitOverlap /\ [][NextOverlap]_vars

----------------------------------------------------------------------------
(* Assessment submission and the learner profile it writes.  A JSON value  *)
(* of the model's answer is written [str |-> s], [int |-> n],              *)
(* [list |-> seq] or [null |-> TRUE].                                      *)

MaxSubmits == 3
MaxInterests == 12

LearningStyle == {"visual", "auditory", "kinesthetic", "reading_writing", "multimodal"}
ComplexityTolerance == {"low", "medium", "high"}

\* str.lower on the strings the answers carry
lower(s) ==
    CASE s = "Auditory" -> "auditory"
      [] s = "HIGH" -> "high"
      [] OTHER -> s

\* GeminiAIService.generate_student_profile, lines 33-39
generate_student_profile(profile) ==
    [learning_style |-> Get(profile, "learning_preference", [str |-> "visual"]),
     complexity_tolerance |-> Get(profile, "complexity_tolerance", [str |-> "medium"]),
     interests |-> Get(profile, "interests", [list |-> <<>>]),
     attention_span_minutes |-> Get(profile, "attention_span_minutes", [int |-> 15]),
     sensory_triggers |-> Get(profile, "sensory_triggers", [list |-> <<>>])]

\* NeuroProfile(user_id=..., assessment_raw_data=...): the dataclass defaults
NewNeuroProfile(user_id, raw_data) ==
    [user_id |-> user_id,
     assessment_raw_data |-> raw_data,
     learning_style |-> "visual",
     complexity_tolerance |-> "medium",
     attention_span_minutes |-> 15,
     interests |-> <<>>,
     generated_profile |-> [k \in {} |-> k],
     version |-> 1]

\* NeuroProfile.update_from_assessment
update_from_assessment(p, raw_data) ==
    [p EXCEPT !.assessment_raw_data = raw_data, !.version = @ + 1]

\* the enum lookup of lines 80-92: a value that is no member is passed over
EnumOr(value, members, current) ==
    IF lower(value.str) \in members THEN lower(value.str) ELSE current

\* lines 82, 89 and 95 raise on a value that has no lower() or no slice
Raises(profile_data) ==
    \/ "str" \notin DOMAIN profile_data.learning_style
    \/ "str" \notin DOMAIN profile_data.complexity_tolerance
    \/ "list" \notin DOMAIN profile_data.interests

\* bug variant: the interests are stored as they come
update_generated_profile_whole(p, profile_data) ==
    [p EXCEPT
        !.generated_profile = profile_data,
        !.learning_style = EnumOr(profile_data.learning_style, LearningStyle, @),
        !.complexity_tolerance =
            EnumOr(profile_data.complexity_tolerance, ComplexityTolerance, @),
        !.interests = profile_data.interests.list,
        !.version = @ + 1]

\* NeuroProfile.update_generated_profile, when it does not raise
update_generated_profile(p, profile_data) ==
    [p EXCEPT
        !.generated_profile = profile_data,
        !.learning_style = EnumOr(profile_data.learning_style, LearningStyle, @),
        !.complexity_tolerance =
            EnumOr(profile_data.complexity_tolerance, ComplexityTolerance, @),
        !.interests = SubSeq(profile_data.interests.list, 1,
                             IF Len(profile_data.interests.list) < 10
                             THEN Len(profile_data.interests.list) ELSE 10),
        !.version = @ + 1]

\* Assessment(student_id=...), add_answer for each answer, complete() and
\* mark_processing(): the status the entity ends with is PROCESSING
answered(existing, student_id, answers) ==
    LET assessment == IF existing = None
                      THEN [student_id |-> student_id, status |-> "not_started",
                            answers_json |-> <<>>, generated_profile_id |-> None]
                      ELSE existing[1]
    IN  [assessment EXCEPT !.answers_json = @ \o answers,
                           !.status = "processing"]

\* Assessment.get_raw_data
get_raw_data(assessment) ==
    [student_id |-> assessment.student_id, answers |-> assessment.answers_json]

Interests(n) == [list |-> [i \in 1..n |-> i]]

\* what the model's answer, parsed, can be: an object with some of the
\* keys, values in and out of range, of the right type and not
ProfileReplies ==
    {[k \in {} |-> k],
     [learning_preference |-> [str |-> "Auditory"],
      attention_span_minutes |-> [int |-> 45],
      interests |-> Interests(2)],
     [learning_preference |-> [str |-> "bogus"],
      complexity_tolerance |-> [str |-> "HIGH"],
      attention_span_minutes |-> [int |-> 3],
      interests |-> Interests(10)],
     [attention_span_minutes |-> [int |-> 0],
      interests |-> Interests(MaxInterests - 1)],
     [interests |-> Interests(MaxInterests)],
     [interests |-> [null |-> TRUE]],
     [learning_preference |-> [null |-> TRUE]]}

Rejected(n, student_id, error, message) ==
    [n |-> n, student_id |-> student_id, status |-> error, message |-> message]

\* SubmitAssessmentCommand.execute.  model_fails: the model call or the
\* parse of its answer raises.  kept: the instance read by
\* get_by_student_id is still in the session at the update; its answers
\* list is the entity's list, so the assignment of line 86 changes nothing.
Submit(student_id, answers, model_fails, profile_reply, kept) ==
    LET n == submitted.n + 1
        existing == IF student_id \in DOMAIN assessments
                    THEN Some(assessments[student_id]) ELSE None
        assessment == answered(existing, student_id, answers)
        stored == IF existing # None /\ kept
                  THEN [assessment EXCEPT !.answers_json = existing[1].answers_json]
                  ELSE assessment
        profile_data == generate_student_profile(profile_reply)
        profile ==
            IF student_id \in DOMAIN profiles
            THEN update_generated_profile(
                     update_from_assessment(profiles[student_id],
                                            get_raw_data(assessment)),
                     profile_data)
            ELSE update_generated_profile(
                     NewNeuroProfile(student_id, get_raw_data(assessment)),
                     profile_data)
    IN  /\ submitted.n < MaxSubmits
        /\ IF student_id \notin Users
           THEN /\ submitted' = Rejected(n, student_id, "EntityNotFoundError",
                                         "User not found")
                /\ UNCHANGED <<assessments, profiles>>
           ELSE IF ~is_student(student_id)
           THEN /\ submitted' = Rejected(n, student_id, "ValidationError",
                                         "Only students can complete assessments")
                /\ UNCHANGED <<assessments, profiles>>
           ELSE IF existing # None /\ existing[1].status = "completed"
           THEN /\ submitted' = Rejected(n, student_id, "ValidationError",
                                         "Assessment already completed")
                /\ UNCHANGED <<assessments, profiles>>
           ELSE IF model_fails \/ Raises(profile_data)
           THEN /\ assessments' = Put(assessments, student_id, stored)
                /\ submitted' = [n |-> n, student_id |-> student_id,
                                 status |-> "processing",
                                 message |-> "Assessment submitted. Profile generation in progress."]
                /\ UNCHANGED profiles
           ELSE /\ assessments' =
                       Put(assessments, student_id,
                           [stored EXCEPT !.generated_profile_id = Some(student_id)])
                /\ profiles' = Put(profiles, student_id, profile)
                /\ submitted' = [n |-> n, student_id |-> student_id,
                                 status |-> "completed",
                                 message |-> "Assessment completed and profile generated"]
        /\ UNCHANGED <<playVars, validateVars, extractVars, gatewayVars, trainVars>>

NextAssess ==
    \E student_id \in {"s1", "t1", "u0"},
       answers \in {<<[question_id |-> 1, value |-> "a"]>>,
                    <<[question_id |-> 1, value |-> "b"],
                      [question_id |-> 2, value |-> "c"]>>},
       model_fails \in BOOLEAN, profile_reply \in ProfileReplies, kept \in BOOLEAN :
        Submit(student_id, answers, model_fails, profile_reply, kept)

\* the tables are empty before the first submission
SpecAssess == Init /\ [][NextAssess]_vars

----------------------------------------------------------------------------
(* Properties *)

Done(p) == pc[p] = "done"
Before(p) == call[p].pre[1]
ValidCall(p) == call[p].lesson_id \in Lessons /\ call[p].student_id \in Students
RowsBefore(p) ==
    PairRows(Before(p).adapted_lessons, call[p].lesson_id, call[p].student_id)
RowsNow(p) ==
    PairRows(db.adapted_lessons, call[p].lesson_id, call[p].student_id)
TheRow(p) == CHOOSE i \in RowsBefore(p) : TRUE
ReadyBefore(p) ==
    /\ ValidCall(p)
    /\ Cardinality(RowsBefore(p)) = 1
    /\ Before(p).adapted_lessons[TheRow(p)].status = READY
NoReadyBefore(p) ==
    /\ ValidCall(p)
    /\ Cardinality(RowsBefore(p)) <= 1
    /\ \A i \in RowsBefore(p) : Before(p).adapted_lessons[i].status # READY
ModelFailed(p) == call[p].outcome \in {"raise", "unparseable", "array"}

C1_State ==
    \A p \in Procs :
        (Done(p) /\ ReadyBefore(p)) =>
            LET before == Before(p).adapted_lessons[TheRow(p)]
                after == db.adapted_lessons[TheRow(p)]
            IN  /\ call[p].gateway_calls = 0
                /\ call[p].result.kind = "cached"
                /\ call[p].result.blocks = before.content_blocks
                /\ after.content_blocks = before.content_blocks
                /\ after.view_count = before.view_count + 1

C1_Twice ==
    \A p \in Procs :
        (pc[p] = "hit" /\ pc'[p] = "done"
           /\ hist[PairOf(call[p])].cached # None)
        => call'[p].result.blocks = hist[PairOf(call[p])].cached[1]

\* C1: a play for a pair whose entry is ready calls the gateway zero times,
\* returns the stored blocks unchanged and adds exactly 1 to the entry's
\* view counter; a second such play returns the blocks the first returned.
C1_ReadyPlayServesCache == []C1_State /\ [][C1_Twice]_vars

C1_Witness ==
    \E p \in Procs :
        /\ Done(p) /\ ReadyBefore(p)
        /\ call[p].result.kind = "cached"
        /\ call[p].result.blocks # <<>>
        /\ db.adapted_lessons[TheRow(p)].view_count = 2

\* C2: with one play at a time the store holds at most one adapted entry
\* per pair, and a regeneration over an entry that is not ready rewrites
\* that entry: same identity, no new row.
C2_OneEntryPerPair ==
    /\ \A l \in Lessons, s \in Students :
          Cardinality(PairRows(db.adapted_lessons, l, s)) <= 1
    /\ \A p \in Procs :
          (Done(p) /\ call[p].result.kind = "generated" /\ RowsBefore(p) # {})
          => /\ call[p].result.adapted_lesson_id = TheRow(p)
             /\ Len(db.adapted_lessons) = Len(Before(p).adapted_lessons)

C2_Witness ==
    \E p \in Procs :
        /\ Done(p) /\ call[p].result.kind = "generated"
        /\ RowsBefore(p) # {}
        /\ Before(p).adapted_lessons[TheRow(p)].status = FAILED

\* C3: two plays of one pair that both looked up before either wrote both
\* complete and leave exactly one entry for the pair.
C3_RaceLeavesOneEntry ==
    \A p, q \in Procs :
        (/\ p # q
         /\ Done(p) /\ Done(q)
         /\ PairOf(call[p]) = PairOf(call[q])
         /\ call[p].result.kind = "generated"
         /\ call[q].result.kind = "generated"
         /\ call[p].adapted = None /\ call[q].adapted = None)
        => Cardinality(RowsNow(p)) = 1

\* C4: when the model call or the parse of its answer fails, play ends in
\* the one generation error and the store is what it was before the call;
\* whatever failed before, a play for a pair with a profile and no ready
\* entry calls the gateway (once).
C4_FailureLeavesNoTrace ==
    \A p \in Procs :
        /\ (Done(p) /\ ModelFailed(p))
           => /\ call[p].result.kind = "error"
              /\ call[p].result.error = "EXTERNAL_SERVICE_ERROR"
              /\ db = Before(p)
        /\ (Done(p) /\ NoReadyBefore(p)
              /\ Before(p).neuro_profiles[call[p].student_id] # None)
           => call[p].gateway_calls = 1

C4_Witness ==
    \E p \in Procs :
        /\ Done(p) /\ ModelFailed(p)
        /\ call[p].gateway_calls = 1
        /\ hist[PairOf(call[p])].failures = 2

\* C5: a play for a pair without a ready entry by a student without a
\* profile ends in the missing-profile validation error, which is not the
\* generation error, calls the gateway zero times and writes nothing.
C5_MissingProfile ==
    \A p \in Procs :
        (Done(p) /\ NoReadyBefore(p)
           /\ Before(p).neuro_profiles[call[p].student_id] = None)
        => /\ call[p].result.kind = "error"
           /\ call[p].result.error = "VALIDATION_ERROR"
           /\ call[p].result.error # adapt_lesson(ModelOutcomes[1], "visual").error
           /\ call[p].gateway_calls = 0
           /\ db = Before(p)

C5_Witness ==
    \E p \in Procs :
        /\ Done(p) /\ NoReadyBefore(p)
        /\ Before(p).neuro_profiles[call[p].student_id] = None
        /\ call[p].result = MissingProfileError
        /\ RowsBefore(p) # {}

\* C6: a play for a pair with a ready entry succeeds with the cached
\* blocks although the student's profile has been deleted.
C6_ReplayWithoutProfile ==
    \A p \in Procs :
        (Done(p) /\ ReadyBefore(p)
           /\ Before(p).neuro_profiles[call[p].student_id] = None)
        => /\ call[p].result.kind = "cached"
           /\ call[p].result.blocks =
                 Before(p).adapted_lessons[TheRow(p)].content_blocks

C6_Witness ==
    \E p \in Procs :
        /\ Done(p) /\ ReadyBefore(p)
        /\ Before(p).neuro_profiles[call[p].student_id] = None
        /\ call[p].result.kind = "cached"

\* C7: a play for a pair with a ready entry, whatever has changed in the
\* lesson or the profile since the generation, calls the gateway zero times
\* and changes nothing in the store but the entry's view counter.
C7_StaleEntryIsKept ==
    \A p \in Procs :
        (Done(p) /\ ReadyBefore(p))
        => /\ call[p].gateway_calls = 0
           /\ db = [Before(p) EXCEPT
                      !.adapted_lessons[TheRow(p)].view_count = @ + 1]

C7_Witness ==
    \E p \in Procs :
        /\ Done(p) /\ ReadyBefore(p)
        /\ call[p].result.kind = "cached"
        /\ db.lessons[call[p].lesson_id].title # call[p].result.lesson_title
        /\ db.neuro_profiles[call[p].student_id] = Some("auditory")
        /\ call[p].result.adaptation_style = "Visual Focus"

C8_State ==
    \A p \in Procs :
        (Done(p) /\ call[p].result.kind = "generated")
        => /\ db.adapted_lessons[call[p].result.adapted_lesson_id].status = READY
           /\ db.lessons[call[p].lesson_id].adaptation_count =
                 Before(p).lessons[call[p].lesson_id].adaptation_count + 1

EntryBecomesReady ==
    \E i \in 1..Len(db'.adapted_lessons) :
        /\ db'.adapted_lessons[i].status = READY
        /\ (i <= Len(db.adapted_lessons) => db.adapted_lessons[i].status # READY)

CounterChanges ==
    \E l \in Lessons :
        db'.lessons[l].adaptation_count # db.lessons[l].adaptation_count

\* C8: a play that generates leaves the pair's entry ready and the lesson's
\* adaptation counter one higher, and in every step of the store an entry
\* becomes ready by generation exactly when a lesson's counter changes.
C8_GenerationIsAtomic ==
    []C8_State /\ [][EntryBecomesReady <=> CounterChanges]_vars

C8_Witness ==
    \E p \in Procs :
        /\ Done(p) /\ call[p].result.kind = "generated"
        /\ db.lessons[call[p].lesson_id].adaptation_count = 2

IsValidated(blocks) ==
    \A j \in 1..Len(blocks) :
        /\ IsDict(blocks[j])
        /\ "type" \in DOMAIN blocks[j] /\ blocks[j]["type"] \in valid_types
        /\ "order" \in DOMAIN blocks[j] /\ blocks[j]["order"] = j - 1

\* C9: every block list play stores and returns is validated: each block
\* has a type of the known set and an order equal to its position.
C9_StoredBlocksValidated ==
    /\ \A i \in 1..Len(db.adapted_lessons) :
          IsValidated(db.adapted_lessons[i].content_blocks)
    /\ \A p \in Procs : Done(p) => IsValidated(call[p].result.blocks)

NumDicts(blocks) == Cardinality({j \in 1..Len(blocks) : IsDict(blocks[j])})

\* C10: validate returns as many blocks as the input has dictionaries, with
\* the orders 0..n-1 in input order.
C10_OrdersContiguous ==
    validated # None =>
        /\ Len(validated[1]) = NumDicts(raw)
        /\ \A j \in 1..Len(validated[1]) : validated[1][j]["order"] = j - 1

\* the eight kinds the validator knows
KnownKinds ==
    {"heading", "text", "image", "image_prompt", "quiz", "quiz_check",
     "activity", "summary"}

\* position, in the validated list, of the dictionary at input position i
OutIndex(blocks, i) == Cardinality({j \in 1..i : IsDict(blocks[j])})

UnknownType(block) ==
    "type" \notin DOMAIN block \/ block["type"] \notin KnownKinds

\* C11: a dictionary entry whose type is missing or unknown validates to a
\* text block, every validated type is one of the eight known kinds, and
\* the single entry {type: mystery, content: x} validates to exactly
\* {type: text, content: x, order: 0, id: "0"}.
C11_UnknownTypeBecomesText ==
    validated # None =>
        /\ \A j \in 1..Len(validated[1]) : validated[1][j]["type"] \in KnownKinds
        /\ \A i \in 1..Len(raw) :
              (IsDict(raw[i]) /\ UnknownType(raw[i])) =>
                  validated[1][OutIndex(raw, i)]["type"] = "text"
        /\ raw = <<[type |-> "mystery", content |-> "x"]>> =>
              validated[1] = <<[type |-> "text", content |-> "x", order |-> 0,
                                id |-> "0"]>>

C11_Witness ==
    /\ validated # None
    /\ raw = <<[type |-> "mystery", content |-> "x"]>>
    /\ validated[1][1]["type"] = "text"

QuizWithoutOptions(block) ==
    /\ IsDict(block)
    /\ "type" \in DOMAIN block /\ block["type"] \in {"quiz", "quiz_check"}
    /\ "options" \notin DOMAIN block

\* C12: a quiz or quiz_check entry without an options field validates to a
\* block with options = [] and correct_index = 0, whatever else it carries.
C12_QuizDefaults ==
    validated # None =>
        \A i \in 1..Len(raw) :
            QuizWithoutOptions(raw[i]) =>
                /\ validated[1][OutIndex(raw, i)]["options"] = <<>>
                /\ validated[1][OutIndex(raw, i)]["correct_index"] = 0

Extractors == {"agent", "gemini"}

\* C13: for a valid JSON object or array, extracting from the text inside
\* a json fence gives the value that parsing the unwrapped text gives, by
\* json.loads and by the extractor itself.
C13_FencedRoundTrip ==
    \A x \in Extractors :
        (parsed[x] # None /\ inner # None) =>
            /\ json_loads(inner[1]).ok
            /\ parsed[x][1] = json_loads(inner[1])
            /\ parsed.agent # None => parsed.agent[1] = parse_response(inner[1])
            /\ parsed.gemini # None =>
                  parsed.gemini[1] = parse_json_response(inner[1])

C13_Witness ==
    /\ inner = Some("[{\"k\": 1}]")
    /\ parsed.agent # None /\ parsed.gemini # None
    /\ parsed.agent[1].ok /\ parsed.agent[1].value = "[{\"k\":1}]"
    /\ parsed.gemini[1] = parsed.agent[1]

Gateways == {"agent", "gemini"}

WrongShape(model_reply) ==
    \/ model_reply.kind # "object"
    \/ /\ "blocks" \in DOMAIN model_reply.value
       /\ NonList(model_reply.value["blocks"])

\* C14: an adapt call returns a complete result, an adaptation style and
\* the validated list of the reply's blocks, or raises the one AI service
\* error; a failed model call, an unparseable reply, a reply that is no
\* object and blocks that are no list all end in that error.
C14_CompleteOrFailure ==
    \A x \in Gateways :
        adapt_result[x] # None =>
            /\ adapt_result[x][1].ok =>
                  /\ ~WrongShape(reply)
                  /\ "adaptation_style" \in DOMAIN adapt_result[x][1].value
                  /\ "blocks" \in DOMAIN adapt_result[x][1].value
                  /\ adapt_result[x][1].value["blocks"] =
                         validate_blocks(Get(reply.value, "blocks", <<>>))
            /\ ~adapt_result[x][1].ok =>
                  adapt_result[x][1].error = "EXTERNAL_SERVICE_ERROR"

SampleIds(samples) == {samples[j].id : j \in 1..Len(samples)}

\* C15: collect puts no interaction that has a correction in the SFT list,
\* no accepted interaction without a correction in the preference list,
\* and no interaction in both lists.
C15_ListsAreExclusive ==
    collected # None =>
        /\ \A i \in 1..Len(interactions) :
              interactions[i].human_correction # None =>
                  i \notin SampleIds(collected[1].sft_data)
        /\ \A i \in 1..Len(interactions) :
              (interactions[i].was_accepted
                 /\ interactions[i].human_correction = None) =>
                  i \notin SampleIds(collected[1].dpo_data)
        /\ SampleIds(collected[1].sft_data)
              \cap SampleIds(collected[1].dpo_data) = {}

C15_Witness ==
    /\ collected # None
    /\ \E i, j \in 1..Len(interactions) :
          /\ interactions[i].human_correction # None
          /\ interactions[i].was_accepted
          /\ i \in SampleIds(collected[1].dpo_data)
          /\ interactions[j].human_correction = None
          /\ interactions[j].was_accepted
          /\ j \in SampleIds(collected[1].sft_data)

\* C16: build emits a preference sample exactly when the interaction has a
\* correction payload and was_accepted is false; otherwise an SFT sample
\* exactly when was_accepted is true; otherwise nothing.
C16_BuildRule ==
    collected # None =>
        \A i \in 1..Len(interactions) :
            LET corrected == /\ interactions[i].human_correction # None
                             /\ ~interactions[i].was_accepted
            IN  /\ i \in SampleIds(collected[1].dpo_data) <=> corrected
                /\ i \in SampleIds(collected[1].sft_data) <=>
                       (~corrected /\ interactions[i].was_accepted)

\* C17: marking ids that are already processed is a no-op: the batch id
\* and the processed timestamp of such a row stay as they were first set.
C17_RemarkIsNoOp ==
    [][\A i \in 1..Len(training_logs) :
          training_logs[i].is_processed =>
              /\ training_logs'[i].training_batch_id =
                     training_logs[i].training_batch_id
              /\ training_logs'[i].processed_at = training_logs[i].processed_at
      ]_vars

BatchSampleIds(batch) == SampleIds(batch.sft_data) \cup SampleIds(batch.dpo_data)

\* C18: a selection returns no id that was marked processed before it, so
\* over the pipeline runs each interaction is folded into at most one batch.
C18_ProcessedAreExcluded ==
    /\ IdsOf(run.selected) \cap run.marked_before = {}
    /\ \A i, j \in 1..Len(batches) :
          i # j => BatchSampleIds(batches[i]) \cap BatchSampleIds(batches[j]) = {}

C18_Witness ==
    /\ Len(batches) = 2
    /\ run.pc = "collected"
    /\ run.marked_before # {}
    /\ BatchSampleIds(batches[1]) # {}
    /\ BatchSampleIds(batches[2]) # {}
    /\ \E i \in BatchSampleIds(batches[1]) :
          /\ training_logs[i].is_processed
          /\ training_logs[i].training_batch_id # Some(1)

Corrected(row) == ~row.was_accepted /\ row.human_correction # None

\* C19: once a correction is recorded on an interaction (was_accepted
\* false, correction payload non-null), no later operation returns it to
\* was_accepted true or to a null payload.
C19_CorrectionIsOneWay ==
    [][\A i \in 1..Len(training_logs) :
          Corrected(training_logs[i]) => Corrected(training_logs'[i])
      ]_vars

\* C20: every logged interaction is created accepted and without a
\* correction; a correction arrives only later, on an existing interaction.
C20_CreatedAccepted ==
    [][\A i \in 1..Len(training_logs') :
          i > Len(training_logs) =>
              /\ training_logs'[i].was_accepted
              /\ training_logs'[i].human_correction = None
      ]_vars

\* C21: after any sequence of profile mutations the stored profile's
\* attention span is within [5,30] and its interests list has at most 10
\* entries.
C21_ProfileWithinBounds ==
    \A s \in DOMAIN profiles :
        /\ profiles[s].attention_span_minutes >= 5
        /\ profiles[s].attention_span_minutes <= 30
        /\ Len(profiles[s].interests) <= 10

\* a profile updated a second time, from an answer with 0 minutes and more
\* than ten interests
C21_Witness ==
    /\ "s1" \in DOMAIN profiles
    /\ profiles["s1"].version > 2
    /\ profiles["s1"].generated_profile.attention_span_minutes.int = 0
    /\ Len(profiles["s1"].generated_profile.interests.list) > 10
    /\ Len(profiles["s1"].interests) = 10

C23_NoLostIncrement ==
    \A l \in Lessons : db.lessons[l].adaptation_count = tally.generations[l]

\* C24: an adapted lesson's view counter equals the number of cache hits
\* served from it, also when two cache hits for the pair overlap.
C24_ViewsCountHits ==
    \A i \in 1..Len(db.adapted_lessons) :
        db.adapted_lessons[i].view_count = tally.views[i]

\* C25: when two pipeline runs overlap, no interaction is in the samples
\* of both batches, and each interaction's stored batch id names the one
\* batch whose samples contain it.
C25_OverlapKeepsBatchesApart ==
    /\ \A i, j \in 1..Len(batches) :
          i # j => BatchSampleIds(batches[i]) \cap BatchSampleIds(batches[j]) = {}
    /\ (\A r \in Runners : sess[r].pc = "marked")
       => \A k \in 1..Len(training_logs), i \in 1..Len(batches) :
             k \in BatchSampleIds(batches[i])
             => training_logs[k].training_batch_id = Some(batches[i].batch_id)

\* C26: once an interaction is marked processed it never becomes
\* unprocessed again, also when an entity copy read before the mark is
\* written by the repository update after the mark.
C26_ProcessedIsMonotonic ==
    [][\A i \in 1..Len(training_logs) :
          training_logs[i].is_processed => training_logs'[i].is_processed
      ]_vars

\* C27: validate is idempotent: validating a validated list gives the
\* same list, for every raw list, also one with entries that are no
\* dictionaries.
C27_ValidateIdempotent ==
    validated # None => validate_blocks(validated[1]) = validated[1]

\* C28: to_training_format returns the chosen/rejected shape exactly for
\* the interactions prepare_training_data puts in the preference list.
C28_EntityAgreesWithPipeline ==
    collected # None =>
        \A i \in 1..Len(interactions) :
            "chosen" \in DOMAIN to_training_format(interactions[i])
            <=> i \in SampleIds(collected[1].dpo_data)

\* the ids of the blocks of a stored adapted lesson
BlockIds(adapted_lesson) ==
    {adapted_lesson.content_blocks[j]["id"] :
        j \in {k \in 1..Len(adapted_lesson.content_blocks) :
                  "id" \in DOMAIN adapted_lesson.content_blocks[k]}}

\* C29: a feedback submission appends one log (not accepted, correction
\* set, unprocessed) when the user is a teacher, the adapted lesson exists
\* and the block id is one of its blocks' ids; otherwise it appends
\* nothing; the adapted lessons stay as they are in both cases.
C29_FeedbackOnlyAppends ==
    [][\A u \in UserIds, a \in 1..(MaxPlays + 1), b \in {"None", "b7"} :
          SubmitFeedback(u, a, b, "content") =>
              /\ db' = db
              /\ Len(training_logs') = Len(training_logs) + 1
              /\ ~training_logs'[Len(training_logs')].was_accepted
              /\ training_logs'[Len(training_logs')].human_correction # None
              /\ ~training_logs'[Len(training_logs')].is_processed
              /\ u \in Teachers
              /\ a \in 1..Len(db.adapted_lessons)
              /\ b \in BlockIds(db.adapted_lessons[a])
      ]_vars

\* C30: once a student's assessment submission is committed, a second
\* submission by the same student is rejected with 'Assessment already
\* completed' and leaves the stored answers and status unchanged.
C30_SecondSubmissionRejected ==
    [][\A s \in DOMAIN assessments :
          (submitted'.n # submitted.n /\ submitted'.student_id = s)
          => /\ submitted'.status = "ValidationError"
             /\ submitted'.message = "Assessment already completed"
             /\ assessments'[s] = assessments[s]
      ]_vars

====
